---- MODULE Spec2Model ----
(***************************************************************************)
(* V10PresentationExchange (Aries#0037 v1.0 presentation exchange record)  *)
(* and V10PresentationExchangeSchema, from                                 *)
(* aries_cloudagent/messaging/present_proof/v1_0/models/                   *)
(* presentation_exchange.py.                                               *)
(*                                                                         *)
(* A Python value is a tagged record [t, s, b, n]:                         *)
(*   t = "none"  None                                                      *)
(*   t = "str"   the string s                                              *)
(*   t = "bool"  the native boolean b                                      *)
(*   t = "dict"  an opaque mapping (a payload blob) with n entries         *)
(* A Python dict keyed by attribute names is a function from a set of      *)
(* strings to values.                                                      *)
(***************************************************************************)
EXTENDS Integers, Sequences, FiniteSets, TLC

VARIABLES rec, ret

vars == << rec, ret >>

(***************************************************************************)
(* Bounds of the model.                                                    *)
(***************************************************************************)
\* number of identifiers the storage collaborator can hand out
NumIds == 2
\* largest number of entries of the presentation payload blob
MaxBlob == 1

(***************************************************************************)
(* Python values.                                                          *)
(***************************************************************************)
None == [t |-> "none", s |-> "", b |-> FALSE, n |-> 0]
Str(x) == [t |-> "str", s |-> x, b |-> FALSE, n |-> 0]
Bool(x) == [t |-> "bool", s |-> "", b |-> x, n |-> 0]
Dict(k) == [t |-> "dict", s |-> "", b |-> FALSE, n |-> k]

\* Python truth value of val, as tested by `if val:`
Truthy(val) ==
    CASE val.t = "none" -> FALSE
      [] val.t = "str" -> val.s # ""
      [] val.t = "bool" -> val.b
      [] val.t = "dict" -> val.n > 0

\* str(val), as marshmallow's String field applies it on dump
PyStr(val) ==
    CASE val.t = "none" -> "None"
      [] val.t = "str" -> val.s
      [] val.t = "bool" -> (IF val.b THEN "True" ELSE "False")
      [] val.t = "dict" -> (IF val.n = 0 THEN "{}" ELSE "{...}")

\* the empty dict {}
EmptyDict == [k \in {} |-> None]

\* result[prop] = val
SetItem(result, prop, val) ==
    [k \in (DOMAIN result) \cup {prop} |-> IF k = prop THEN val ELSE result[k]]

(***************************************************************************)
(* Class constants of V10PresentationExchange.                             *)
(***************************************************************************)
INITIATOR_SELF == "self"
INITIATOR_EXTERNAL == "external"
ROLE_PROVER == "prover"
ROLE_VERIFIER == "verifier"
STATE_PROPOSAL_SENT == "proposal_sent"
STATE_PROPOSAL_RECEIVED == "proposal_received"
STATE_REQUEST_SENT == "request_sent"
STATE_REQUEST_RECEIVED == "request_received"
STATE_PRESENTATION_SENT == "presentation_sent"
STATE_PRESENTATION_RECEIVED == "presentation_received"
STATE_VERIFIED == "verified"

\* the tuple record_tags iterates over
TagProps ==
    << "connection_id", "thread_id", "initiator", "role", "state", "verified" >>

\* the tuple record_value iterates over
ValueProps ==
    << "presentation_proposal_dict", "presentation_request", "presentation",
       "auto_present", "error_msg" >>

\* keyword parameters of __init__
KwNames ==
    { "presentation_exchange_id", "connection_id", "thread_id", "initiator",
      "role", "state", "presentation_proposal_dict", "presentation_request",
      "presentation", "verified", "auto_present", "error_msg" }

\* instance attributes of a record
Attrs == (KwNames \ {"presentation_exchange_id"}) \cup {"_id"}

\* defaults of the keyword parameters of __init__
KwDefault(k) == IF k = "auto_present" THEN Bool(FALSE) ELSE None

(***************************************************************************)
(* V10PresentationExchange.                                                *)
(***************************************************************************)
\* BaseRecord.__init__(id, state): keeps the identifier in _id
BaseRecord__init__(id, state) == [k \in {"_id"} |-> id]

\* V10PresentationExchange.__init__(**kw): every attribute is stored unchecked
__init__(kw) ==
    [a \in Attrs |->
        IF a = "_id"
        THEN BaseRecord__init__(kw["presentation_exchange_id"], kw["state"])["_id"]
        ELSE kw[a]]

\* presentation_exchange_id reading the connection identifier instead of _id
Mut_presentation_exchange_id(self) == self["connection_id"]

\* the property presentation_exchange_id
presentation_exchange_id(self) == self["_id"]

\* getattr(self, prop)
getattr(self, prop) ==
    IF prop = "presentation_exchange_id"
    THEN presentation_exchange_id(self)
    ELSE self[prop]

\* the loop of record_tags from the i-th property on
RECURSIVE record_tags_loop(_, _, _)
record_tags_loop(self, i, result) ==
    IF i > Len(TagProps)
    THEN result
    ELSE LET prop == TagProps[i]
             val == getattr(self, prop)
         IN record_tags_loop(self, i + 1,
                IF Truthy(val) THEN SetItem(result, prop, val) ELSE result)

\* record_tags without the `if val:` test
RECURSIVE Mut_record_tags_loop(_, _, _)
Mut_record_tags_loop(self, i, result) ==
    IF i > Len(TagProps)
    THEN result
    ELSE Mut_record_tags_loop(self, i + 1,
             SetItem(result, TagProps[i], getattr(self, TagProps[i])))

Mut_record_tags(self) == Mut_record_tags_loop(self, 1, EmptyDict)

\* the property record_tags
record_tags(self) == record_tags_loop(self, 1, EmptyDict)

\* BaseRecord.tags: the record's tags, a dict built anew on each access
tags(self) == record_tags(self)

\* the loop of record_value from the i-th property on
RECURSIVE record_value_loop(_, _, _)
record_value_loop(self, i, result) ==
    IF i > Len(ValueProps)
    THEN result
    ELSE LET prop == ValueProps[i]
             val == getattr(self, prop)
         IN record_value_loop(self, i + 1,
                IF Truthy(val) THEN SetItem(result, prop, val) ELSE result)

\* record_value testing `val is not None` instead of `val`
RECURSIVE Mut_record_value_loop(_, _, _)
Mut_record_value_loop(self, i, result) ==
    IF i > Len(ValueProps)
    THEN result
    ELSE LET prop == ValueProps[i]
             val == getattr(self, prop)
         IN Mut_record_value_loop(self, i + 1,
                IF val # None THEN SetItem(result, prop, val) ELSE result)

Mut_record_value(self) == Mut_record_value_loop(self, 1, tags(self))

\* record_value starting from an empty dict instead of the tags
Mut_record_value_fresh(self) == record_value_loop(self, 1, EmptyDict)

\* the property record_value
record_value(self) == record_value_loop(self, 1, tags(self))

(***************************************************************************)
(* V10PresentationExchangeSchema.                                          *)
(***************************************************************************)
\* the declared fields, error_msg left undeclared
Mut_SchemaFields ==
    << "presentation_exchange_id", "connection_id", "thread_id", "initiator",
       "role", "state", "presentation_proposal_dict", "presentation_request",
       "presentation", "verified", "auto_present" >>

\* the declared fields, in declaration order
SchemaFields ==
    << "presentation_exchange_id", "connection_id", "thread_id", "initiator",
       "role", "state", "presentation_proposal_dict", "presentation_request",
       "presentation", "verified", "auto_present", "error_msg" >>

\* fields.Str / fields.Dict / fields.Bool of each declared field
FieldType(f) ==
    CASE f \in {"presentation_proposal_dict", "presentation_request",
                "presentation"} -> "Dict"
      [] f = "auto_present" -> "Bool"
      [] OTHER -> "Str"

\* the declarations with validate=OneOf(...), state among them
Mut_Choices ==
    [initiator |-> {"self", "external"},
     role |-> {"prover", "verifier"},
     state |-> {STATE_PROPOSAL_SENT, STATE_PROPOSAL_RECEIVED, STATE_REQUEST_SENT,
                STATE_REQUEST_RECEIVED, STATE_PRESENTATION_SENT,
                STATE_PRESENTATION_RECEIVED, STATE_VERIFIED},
     verified |-> {"true", "false"}]

\* the declarations with validate=OneOf(...), role without its validator
Mut_ChoicesNoRole ==
    [initiator |-> {"self", "external"},
     verified |-> {"true", "false"}]

\* the declarations with validate=OneOf(...): field |-> allowed strings
Choices ==
    [initiator |-> {"self", "external"},
     role |-> {"prover", "verifier"},
     verified |-> {"true", "false"}]

\* strings marshmallow's Boolean field reads as true / as false
BoolTruthy == {"t", "T", "true", "True", "TRUE", "1"}
BoolFalsy == {"f", "F", "false", "False", "FALSE", "0"}

\* marshmallow Field.deserialize of val for field f: [ok, val]
FieldDeserialize(f, val) ==
    CASE FieldType(f) = "Str" ->
           [ok |-> /\ val.t = "str"
                   /\ (f \in DOMAIN Choices => val.s \in Choices[f]),
            val |-> val]
      [] FieldType(f) = "Dict" ->
           [ok |-> val.t = "dict", val |-> val]
      [] FieldType(f) = "Bool" ->
           [ok |-> \/ val.t = "bool"
                   \/ (val.t = "str" /\ val.s \in BoolTruthy \cup BoolFalsy),
            val |-> IF val.t = "bool" THEN val ELSE Bool(val.s \in BoolTruthy)]

\* marshmallow Field.serialize of val for field f (None stays None)
FieldSerialize(f, val) ==
    CASE val.t = "none" -> None
      [] FieldType(f) = "Str" -> Str(PyStr(val))
      [] FieldType(f) = "Dict" -> val
      [] FieldType(f) = "Bool" ->
           IF val.t = "str"
           THEN Bool(IF val.s \in BoolTruthy THEN TRUE
                     ELSE IF val.s \in BoolFalsy THEN FALSE ELSE val.s # "")
           ELSE Bool(Truthy(val))

\* the range of a tuple
Range(seq) == {seq[i] : i \in 1 .. Len(seq)}

\* Schema.validate(mapping): the fields whose value is rejected
Validate(mapping) ==
    {f \in (DOMAIN mapping) \cap Range(SchemaFields) :
        ~FieldDeserialize(f, mapping[f]).ok}

\* Schema.load without errors: the deserialized value of each present field
load(mapping) ==
    [f \in (DOMAIN mapping) \cap Range(SchemaFields) |->
        FieldDeserialize(f, mapping[f]).val]

\* BaseModelSchema.make_model: model_class(**data)
make_model(data) ==
    __init__([k \in KwNames |-> IF k \in DOMAIN data THEN data[k] ELSE KwDefault(k)])

\* BaseModel.deserialize: load, then the model; a validation error otherwise
Deserialize(mapping) ==
    IF Validate(mapping) = {}
    THEN [ok |-> TRUE, val |-> make_model(load(mapping)), errors |-> {}]
    ELSE [ok |-> FALSE, val |-> None, errors |-> Validate(mapping)]

\* Schema.dump followed by BaseModelSchema.remove_skipped_values (drops None)
Serialize(self) ==
    LET dumped == [f \in Range(SchemaFields) |-> FieldSerialize(f, getattr(self, f))]
    IN [f \in {g \in Range(SchemaFields) : dumped[g] # None} |-> dumped[f]]

(***************************************************************************)
(* Inputs: the values the callers pass.                                    *)
(***************************************************************************)
\* identifiers the storage collaborator hands out
Ids == {Str("id" \o ToString(i)) : i \in 1 .. NumIds}

\* payload blobs of 0 .. MaxBlob entries
Blobs == {Dict(k) : k \in 0 .. MaxBlob}

\* the seven states the class names
States ==
    {STATE_PROPOSAL_SENT, STATE_PROPOSAL_RECEIVED, STATE_REQUEST_SENT,
     STATE_REQUEST_RECEIVED, STATE_PRESENTATION_SENT,
     STATE_PRESENTATION_RECEIVED, STATE_VERIFIED}

\* what a protocol handler passes to __init__ and assigns later
LifeDom ==
    [presentation_exchange_id |-> {None} \cup Ids,
     connection_id |-> {None, Str("c1")},
     thread_id |-> {None},
     initiator |-> {None, Str(INITIATOR_SELF)},
     role |-> {None, Str(ROLE_PROVER), Str("observer")},
     state |-> {None, Str("bogus")} \cup {Str(x) : x \in States},
     presentation_proposal_dict |-> {None},
     presentation_request |-> {None},
     presentation |-> {None} \cup (Blobs \ {Dict(0)}),
     verified |-> {None, Str("true"), Bool(TRUE)},
     auto_present |-> {Bool(FALSE), Bool(TRUE)},
     error_msg |-> {None, Str("err")}]

LifeKw ==
    [presentation_exchange_id : LifeDom.presentation_exchange_id,
     connection_id : LifeDom.connection_id,
     thread_id : LifeDom.thread_id,
     initiator : LifeDom.initiator,
     role : LifeDom.role,
     state : LifeDom.state,
     presentation_proposal_dict : LifeDom.presentation_proposal_dict,
     presentation_request : LifeDom.presentation_request,
     presentation : LifeDom.presentation,
     verified : LifeDom.verified,
     auto_present : LifeDom.auto_present,
     error_msg : LifeDom.error_msg]

\* keyword arguments of the records the projections and the schema are applied to
FnKw ==
    [presentation_exchange_id : {None, Str("id1")},
     connection_id : {None, Str("c1")},
     thread_id : {None, Str("")},
     initiator : {None, Str(INITIATOR_SELF), Str("bogus")},
     role : {None, Str(ROLE_PROVER), Str(ROLE_VERIFIER), Str("observer")},
     state : {None, Str(STATE_PROPOSAL_SENT), Str("bogus")},
     presentation_proposal_dict : {None, Dict(1)},
     presentation_request : {None, Dict(1)},
     presentation : {None} \cup Blobs,
     verified : {None, Str("true"), Str("maybe"), Bool(TRUE), Bool(FALSE)},
     auto_present : {Bool(FALSE), Bool(TRUE)},
     error_msg : {None, Str("err")}]

\* a key the stored mapping does not hold
Absent == [t |-> "absent", s |-> "", b |-> FALSE, n |-> 0]

\* candidate field mappings read back from storage, well-shaped or not
StoredSpace ==
    [presentation_exchange_id : {Absent, Str("id1")},
     connection_id : {Absent, Str("c1"), None},
     thread_id : {Absent},
     initiator : {Absent, Str(INITIATOR_SELF), Str(INITIATOR_EXTERNAL), Str("bogus")},
     role : {Absent, Str(ROLE_PROVER), Str(ROLE_VERIFIER), Str("observer")},
     state : {Absent, Str(STATE_VERIFIED), Str("bogus"), Bool(TRUE)},
     presentation_proposal_dict : {Absent},
     presentation_request : {Absent, Dict(1)},
     presentation : {Absent, Str("x")} \cup (Blobs \ {Dict(0)}),
     verified : {Absent, Str("true"), Str("false"), Str("maybe"), Bool(TRUE)},
     auto_present : {Absent, Bool(FALSE), Bool(TRUE), Str("true")},
     error_msg : {Absent, Str("err")}]

\* the mapping holding the keys of x that are not Absent
ToMapping(x) == [f \in {g \in DOMAIN x : x[g] # Absent} |-> x[f]]

(***************************************************************************)
(* Calls.  ret is what the most recent call returned: its name op, its     *)
(* argument arg, whether it returned normally (ok), the value val, and the *)
(* fields a validation error names.                                        *)
(***************************************************************************)
Ret(op, arg, ok, val, errors) ==
    [op |-> op, arg |-> arg, ok |-> ok, val |-> val, errors |-> errors]

\* no keyword argument given
NoArgs == [k \in KwNames |-> KwDefault(k)]

\* V10PresentationExchange(**kw)
Construct(kw) ==
    /\ rec = __init__(kw)
    /\ ret = Ret("__init__", kw, TRUE, None, {})

\* the protocol handler assigns attribute a
SetAttr(a, v) ==
    /\ rec' = [rec EXCEPT ![a] = v]
    /\ ret' = Ret("setattr", None, TRUE, None, {})

\* BaseRecord.save: the storage collaborator gives a record without an
\* identifier a new one
Save(id) ==
    /\ rec' = IF Truthy(rec["_id"]) THEN rec ELSE [rec EXCEPT !["_id"] = id]
    /\ ret' = Ret("save", None, TRUE, None, {})

\* record.presentation_exchange_id
CallIdentifier ==
    /\ ret' = Ret("presentation_exchange_id", None, TRUE,
                  presentation_exchange_id(rec), {})
    /\ UNCHANGED rec

\* record.record_tags, rejecting a record the schema would reject
Mut_CallRecordTags ==
    /\ ret' = Ret("record_tags", None, Validate(Serialize(rec)) = {},
                  record_tags(rec), {})
    /\ UNCHANGED rec

\* record.record_tags, turning verified into a string in place as it reads it
Mut_CallRecordTagsInPlace ==
    /\ ret' = Ret("record_tags", None, TRUE, record_tags(rec), {})
    /\ rec' = [rec EXCEPT !["verified"] = IF @ = None THEN @ ELSE Str(PyStr(@))]

\* record.record_tags
CallRecordTags ==
    /\ ret' = Ret("record_tags", None, TRUE, record_tags(rec), {})
    /\ UNCHANGED rec

\* record.record_value, consuming error_msg as it reads it
Mut_CallRecordValue ==
    /\ ret' = Ret("record_value", None, TRUE, record_value(rec), {})
    /\ rec' = [rec EXCEPT !["error_msg"] = None]

\* record.record_value
CallRecordValue ==
    /\ ret' = Ret("record_value", None, TRUE, record_value(rec), {})
    /\ UNCHANGED rec

\* record.serialize()
CallSerialize ==
    /\ ret' = Ret("serialize", None, TRUE, Serialize(rec), {})
    /\ UNCHANGED rec

\* the mapping at hand: just serialized, or just read from storage
Wire == IF ret.op = "serialize" THEN ret.val ELSE ret.arg

\* Schema.validate(mapping)
CallValidate ==
    /\ ret.op \in {"serialize", "stored"}
    /\ ret' = Ret("validate", Wire, Validate(Wire) = {}, None, Validate(Wire))
    /\ UNCHANGED rec

\* V10PresentationExchange.deserialize(mapping)
CallDeserialize ==
    /\ ret.op \in {"serialize", "stored"}
    /\ LET d == Deserialize(Wire)
       IN ret' = Ret("deserialize", Wire, d.ok, d.val, d.errors)
    /\ UNCHANGED rec

(***************************************************************************)
(* Spec: one record in the hands of the protocol handler and the storage   *)
(* collaborator.                                                           *)
(***************************************************************************)
Init == \E kw \in LifeKw : Construct(kw)

Next ==
    \/ \E a \in Attrs \ {"_id"} : \E v \in LifeDom[a] : SetAttr(a, v)
    \/ \E id \in Ids : Save(id)
    \/ CallIdentifier
    \/ CallRecordTags
    \/ CallRecordValue
    \/ CallSerialize
    \/ CallValidate
    \/ CallDeserialize

Spec == Init /\ [][Next]_vars

(***************************************************************************)
(* SpecFn: the projections and the schema applied to a constructed record. *)
(***************************************************************************)
InitFn == \E kw \in FnKw : Construct(kw)

NextFn ==
    \/ CallIdentifier
    \/ CallRecordTags
    \/ CallRecordValue
    \/ CallSerialize
    \/ CallDeserialize

SpecFn == InitFn /\ [][NextFn]_vars

(***************************************************************************)
(* SpecSchema: the schema applied to a mapping read back from storage.     *)
(***************************************************************************)
InitSchema ==
    \E x \in StoredSpace :
        /\ rec = __init__(NoArgs)
        /\ ret = Ret("stored", ToMapping(x), TRUE, None, {})

NextSchema ==
    \/ CallValidate
    \/ CallDeserialize

SpecSchema == InitSchema /\ [][NextSchema]_vars

(***************************************************************************)
(* Vocabulary of the properties.                                           *)
(***************************************************************************)
\* the six tag attributes and the five value-only attributes
TagKeys == {"connection_id", "thread_id", "initiator", "role", "state", "verified"}
NonTagKeys ==
    {"presentation_proposal_dict", "presentation_request", "presentation",
     "auto_present", "error_msg"}

\* a value that is neither absent, nor empty, nor the default false
NonEmpty(v) == v \notin {None, Str(""), Dict(0), Bool(FALSE)}

\* the seven enumerated state values
SevenStates ==
    {Str("proposal_sent"), Str("proposal_received"), Str("request_sent"),
     Str("request_received"), Str("presentation_sent"),
     Str("presentation_received"), Str("verified")}

\* V10PresentationExchange(role="prover", state="proposal_sent", connection_id="c1")
ScenarioKw ==
    [NoArgs EXCEPT !["role"] = Str("prover"),
                   !["state"] = Str("proposal_sent"),
                   !["connection_id"] = Str("c1")]

ScenarioPairs ==
    [k \in {"role", "state", "connection_id"} |->
        CASE k = "role" -> Str("prover")
          [] k = "state" -> Str("proposal_sent")
          [] k = "connection_id" -> Str("c1")]

\* a key of mapping m holds a value outside the enumeration of its field
EnumViolated(m) ==
    \/ "initiator" \in DOMAIN m /\ m["initiator"] \notin {Str("self"), Str("external")}
    \/ "role" \in DOMAIN m /\ m["role"] \notin {Str("prover"), Str("verifier")}
    \/ "verified" \in DOMAIN m /\ m["verified"] \notin {Str("true"), Str("false")}

\* the fields of m named by EnumViolated
EnumOffenders(m) ==
    {f \in {"initiator", "role", "verified"} \cap DOMAIN m :
        m[f] \notin (CASE f = "initiator" -> {Str("self"), Str("external")}
                       [] f = "role" -> {Str("prover"), Str("verifier")}
                       [] f = "verified" -> {Str("true"), Str("false")})}

\* the fields of m whose value is not of the declared shape of the field: a
\* string for the string fields, a mapping for the three payloads, a boolean
\* (or a string that reads as one) for auto_present
ShapeOffenders(m) ==
    {f \in DOMAIN m :
        CASE f \in {"presentation_proposal_dict", "presentation_request",
                    "presentation"} -> m[f].t # "dict"
          [] f = "auto_present" ->
               ~(m[f].t = "bool" \/
                 (m[f].t = "str" /\ m[f].s \in {"t", "T", "true", "True", "TRUE", "1",
                                                "f", "F", "false", "False", "FALSE", "0"}))
          [] OTHER -> m[f].t # "str"}

\* the attribute values of r meet the constraints of the schema
ConstraintsHold(r) ==
    /\ r["initiator"] \in {None, Str("self"), Str("external")}
    /\ r["role"] \in {None, Str("prover"), Str("verifier")}
    /\ r["verified"] \in {None, Str("true"), Str("false")}

\* verified or error_msg has been set
Terminal(r) == r["verified"] # None \/ r["error_msg"] # None

(***************************************************************************)
(* C1.  record_tags returns exactly the pairs (k, record.k), k among the   *)
(* six tag attributes, whose value is non-empty: no other key, no key with *)
(* an absent or empty value, no non-empty tag attribute left out.  A       *)
(* record built with no arguments has no tags; the record built with       *)
(* role=prover, state=proposal_sent, connection_id=c1 has exactly those    *)
(* three pairs.                                                            *)
(***************************************************************************)
C1_TagProjectionExact ==
    ret.op = "record_tags" =>
        /\ DOMAIN ret.val = {k \in TagKeys : NonEmpty(rec[k])}
        /\ \A k \in DOMAIN ret.val : ret.val[k] = rec[k]
        /\ rec = __init__(NoArgs) => ret.val = EmptyDict
        /\ rec = __init__(ScenarioKw) => ret.val = ScenarioPairs

C1_Witness ==
    /\ ret.op = "record_tags"
    /\ rec["thread_id"] = Str("")
    /\ rec["verified"] = Bool(FALSE)
    /\ rec["role"] = Str("prover")
    /\ rec["state"] = Str("proposal_sent")
    /\ rec["connection_id"] = Str("c1")
    /\ rec["initiator"] = None
    /\ ret.val = ScenarioPairs

(***************************************************************************)
(* C2.  record_value equals the tags extended with exactly the pairs       *)
(* (k, record.k), k among the five value-only attributes, whose value is   *)
(* non-empty and not the default: every tag pair is in the value, the      *)
(* value restricted to the six tag attributes is the tags, no key holds an *)
(* empty or default value (auto_present=false is no key), and a record     *)
(* built with no arguments has an empty value.                             *)
(***************************************************************************)
C2_ValueProjectionExtendsTags ==
    ret.op = "record_value" =>
        LET T == record_tags(rec)
            extra == {k \in NonTagKeys : NonEmpty(rec[k])}
        IN /\ DOMAIN ret.val = (DOMAIN T) \cup extra
           /\ \A k \in DOMAIN T : ret.val[k] = T[k]
           /\ \A k \in extra : ret.val[k] = rec[k]
           /\ (DOMAIN ret.val) \cap TagKeys = DOMAIN T
           /\ \A k \in DOMAIN ret.val : NonEmpty(ret.val[k])
           /\ \A k \in DOMAIN T : NonEmpty(T[k])
           /\ rec["auto_present"] = Bool(FALSE) => "auto_present" \notin DOMAIN ret.val
           /\ rec = __init__(NoArgs) => ret.val = EmptyDict

C2_Witness ==
    /\ ret.op = "record_value"
    /\ rec["auto_present"] = Bool(FALSE)
    /\ rec["presentation"] = Dict(0)
    /\ rec["presentation_request"] = Dict(1)
    /\ rec["role"] = Str("verifier")
    /\ DOMAIN ret.val = {"role", "presentation_request"}

(***************************************************************************)
(* C3.  As claimed: validation of a candidate mapping fails if and only if *)
(* initiator, role or verified is present with a value outside its         *)
(* enumeration; no other field value causes a failure.                     *)
(***************************************************************************)
C3_FailsIffEnumViolated ==
    ret.op \in {"validate", "deserialize"} =>
        (~ret.ok <=> EnumViolated(ret.arg))

(***************************************************************************)
(* C3, amended.  Validation of a candidate mapping fails if and only if    *)
(* initiator, role or verified is present with a value outside its         *)
(* enumeration, or some present field holds a value that is not of the     *)
(* declared shape of the field; the error names exactly those fields.  A   *)
(* state string outside the seven values is accepted.                      *)
(***************************************************************************)
C3_FailsIffEnumOrShapeViolated ==
    ret.op \in {"validate", "deserialize"} =>
        /\ ~ret.ok <=> (EnumViolated(ret.arg) \/ ShapeOffenders(ret.arg) # {})
        /\ ret.errors = EnumOffenders(ret.arg) \cup ShapeOffenders(ret.arg)
        /\ ret.arg = [k \in {"role"} |-> Str("observer")] =>
               ~ret.ok /\ ret.errors = {"role"}
        /\ ( /\ "state" \in DOMAIN ret.arg
             /\ ret.arg["state"] = Str("bogus")
             /\ ~EnumViolated(ret.arg)
             /\ ShapeOffenders(ret.arg) = {} ) => ret.ok

C3_Witness ==
    /\ ret.op = "deserialize"
    /\ ret.arg = [k \in {"role"} |-> Str("observer")]
    /\ ~ret.ok
    /\ ret.errors = {"role"}

(***************************************************************************)
(* C4.  For a record whose initiator, role and verified are in their       *)
(* enumerations or absent, deserializing its serialized form succeeds and  *)
(* yields a record equal to the original on every populated attribute, the *)
(* identifier and the state included.                                      *)
(***************************************************************************)
C4_RoundTrip ==
    (ret.op = "deserialize" /\ ConstraintsHold(rec)) =>
        /\ ret.arg = Serialize(rec)
        /\ ret.ok
        /\ \A a \in Attrs : rec[a] # None => ret.val[a] = rec[a]

C4_Witness ==
    /\ ret.op = "deserialize"
    /\ ConstraintsHold(rec)
    /\ rec["_id"] = Str("id1")
    /\ rec["state"] = Str("bogus")
    /\ rec["verified"] = Str("true")
    /\ rec["error_msg"] = Str("err")
    /\ rec["presentation"] = Dict(0)
    /\ rec["auto_present"] = Bool(TRUE)
    /\ ret.ok

(***************************************************************************)
(* C5.  As claimed: the tags and the value are disjoint, no attribute key  *)
(* appears in both, and every attribute belongs to exactly one of them.    *)
(***************************************************************************)
C5_ProjectionsDisjoint ==
    ret.op = "record_value" =>
        /\ (DOMAIN record_tags(rec)) \cap (DOMAIN ret.val) = {}
        /\ \A a \in Attrs :
               NonEmpty(rec[a]) =>
                   (a \in DOMAIN record_tags(rec)) # (a \in DOMAIN ret.val)

(***************************************************************************)
(* C5, amended.  The two attribute lists are disjoint, but the projections *)
(* are not: every key of the tags is a key of the value as well.  A        *)
(* non-empty attribute is a key of both projections when it is one of the  *)
(* six tag attributes and a key of the value alone when it is one of the   *)
(* five others; the identifier is a key of neither.                        *)
(***************************************************************************)
C5_TagsWithinValue ==
    ret.op = "record_value" =>
        /\ Range(TagProps) \cap Range(ValueProps) = {}
        /\ (DOMAIN record_tags(rec)) \cap (DOMAIN ret.val) = DOMAIN record_tags(rec)
        /\ \A a \in Attrs \ {"_id"} :
               NonEmpty(rec[a]) =>
                   /\ a \in DOMAIN ret.val
                   /\ a \in DOMAIN record_tags(rec) <=> a \in TagKeys
        /\ "_id" \notin (DOMAIN ret.val) \cup (DOMAIN record_tags(rec))

C5_Witness ==
    /\ ret.op = "record_value"
    /\ rec["_id"] = Str("id1")
    /\ DOMAIN record_tags(rec) = {"connection_id", "state"}
    /\ DOMAIN ret.val = {"connection_id", "state", "presentation", "error_msg"}

C7_IdentifierStable ==
    [][ Truthy(presentation_exchange_id(rec)) =>
            presentation_exchange_id(rec') = presentation_exchange_id(rec) ]_vars

C7_Witness ==
    /\ ret.op = "presentation_exchange_id"
    /\ ret.val = Str("id2")
    /\ rec["state"] = Str("verified")
    /\ rec["connection_id"] = Str("c1")

(***************************************************************************)
(* C8.  Construction, record_tags, record_value and serialize return       *)
(* normally whatever the attribute values, values outside the declared     *)
(* enumerations included; only validate and deserialize fail.              *)
(***************************************************************************)
C8_OnlySchemaLoadFails ==
    /\ ret.op \in {"__init__", "record_tags", "record_value", "serialize"} =>
           ret.ok /\ ret.errors = {}
    /\ ~ret.ok => ret.op \in {"validate", "deserialize"}

C8_Witness ==
    /\ ret.op = "serialize"
    /\ ret.ok
    /\ rec["role"] = Str("observer")
    /\ rec["verified"] = Bool(TRUE)
    /\ rec["state"] = Str("bogus")

(***************************************************************************)
(* C9.  As claimed: once verified or error_msg is set, no later step       *)
(* changes any attribute of the record.                                    *)
(***************************************************************************)
C9_FrozenOnceTerminal ==
    [][ Terminal(rec) => rec' = rec ]_vars

(***************************************************************************)
(* C9, amended.  The record does not freeze: once verified or error_msg is *)
(* set, an assignment by the protocol handler or the assignment of the     *)
(* identifier by the storage collaborator still changes it.  Only the      *)
(* record's own operations (identifier, projections, serialize, validate,  *)
(* deserialize) leave every attribute unchanged.                           *)
(***************************************************************************)
C9_OnlyCallersChangeTerminal ==
    [][ (Terminal(rec) /\ rec' # rec) => ret'.op \in {"setattr", "save"} ]_vars

C9_Witness ==
    /\ ret.op = "serialize"
    /\ rec["verified"] = Bool(TRUE)
    /\ rec["error_msg"] = Str("err")

====
